---- MODULE Spec2Model ----
(***************************************************************************)
(* Model of the preprocessing notebook data_pre_processing.ipynb: the      *)
(* cells run top to bottom (clean, tokenize, pair, pad, split, save) over  *)
(* a corpus of conversations; an exception raised in a cell ends the run.  *)
(* Text is a sequence of characters (one-character strings; a non-ASCII    *)
(* character is written by its code point, "U+0130"), a token is a         *)
(* non-empty text, and Python's None is the value None below.              *)
(***************************************************************************)
EXTENDS Integers, Sequences, FiniteSets, Bags, TLC

VARIABLES
    corpus,       \* the convokit Corpus: conversations, each a list of utterances
    pc,           \* the cell (and place in it) the run is at
    ci,           \* position of the outer loop (conversation), 1-based
    ui,           \* position of the inner loop (utterance / pair index), 1-based
    pairs,        \* the global list `pairs`
    train_pairs,  \* the global `train_pairs`
    val_pairs,    \* the global `val_pairs`
    train_idx,    \* positions of `pairs` that train_test_split put in train
    val_idx,      \* positions of `pairs` that train_test_split put in validation
    file,         \* preprocessed_data.json
    stdout,       \* what the cells printed, as tags
    err,          \* the exception that ended the run, "none" while it runs
    arg,          \* argument of the function under study (function specifications)
    ret           \* its result

vars == <<corpus, pc, ci, ui, pairs, train_pairs, val_pairs, train_idx, val_idx,
          file, stdout, err, arg, ret>>

\* ------------------------------------------------------------------ bounds
MaxConvs == 2
MaxUtts == 3
MaxTextLen == 3
MaxSeqLen == 3
MaxPadLen == 3
MaxSplitLen == 4

\* ------------------------------------------------------- program constants
max_length == 10

PAD == <<"<", "P", "A", "D", ">">>

SUCCESS == "Preprocessed data saved successfully!"

\* ------------------------------------------------------------- characters
None == <<"None">>

UpperAZ == <<"A","B","C","D","E","F","G","H","I","J","K","L","M",
             "N","O","P","Q","R","S","T","U","V","W","X","Y","Z">>

LowerAZ == <<"a","b","c","d","e","f","g","h","i","j","k","l","m",
             "n","o","p","q","r","s","t","u","v","w","x","y","z">>

Digits == {"0","1","2","3","4","5","6","7","8","9"}

Range(s) == {s[j] : j \in DOMAIN s}

\* str.isspace() / the regex class \s: ASCII whitespace and Unicode spaces
Whitespace == {" ", "\t", "\n", "\r", "U+00A0"}

SeqsUpTo(S, n) == UNION {[1..k -> S] : k \in 0..n}

RECURSIVE Concat(_)
Concat(ss) == IF ss = <<>> THEN <<>> ELSE Head(ss) \o Concat(Tail(ss))

\* str.lower() on one character: the full Unicode lower-case mapping, which
\* maps U+0130 to two characters and the Kelvin sign U+212A to ASCII k
lower_char(c) ==
    IF \E j \in DOMAIN UpperAZ : UpperAZ[j] = c
      THEN <<LowerAZ[CHOOSE j \in DOMAIN UpperAZ : UpperAZ[j] = c]>>
    ELSE IF c = "U+0130" THEN <<"i", "U+0307">>
    ELSE IF c = "U+00C9" THEN <<"U+00E9">>
    ELSE IF c = "U+212A" THEN <<"k">>
    ELSE <<c>>

lower(text) == Concat([j \in DOMAIN text |-> lower_char(text[j])])

\* the characters the pattern [^a-zA-Z0-9\s] does not match
regex_keeps(c) ==
    c \in Range(LowerAZ) \cup Range(UpperAZ) \cup Digits \cup Whitespace

\* re.sub(r"[^a-zA-Z0-9\s]", "", text)
re_sub(text) == SelectSeq(text, regex_keeps)

clean_text_no_lower(text) == re_sub(text)

\* def clean_text(text): lower-case, then delete what the pattern matches
clean_text(text) == re_sub(lower(text))

RECURSIVE split_from(_, _, _, _)
split_from(text, j, word, acc) ==
    IF j > Len(text)
      THEN IF word # <<>> THEN Append(acc, word) ELSE acc
    ELSE IF text[j] \in Whitespace
      THEN split_from(text, j + 1, <<>>, IF word # <<>> THEN Append(acc, word) ELSE acc)
    ELSE split_from(text, j + 1, Append(word, text[j]), acc)

\* text.split(" "): cut at every single space, empty pieces kept
RECURSIVE split_on_space(_, _, _, _)
split_on_space(text, j, word, acc) ==
    IF j > Len(text) THEN Append(acc, word)
    ELSE IF text[j] = " " THEN split_on_space(text, j + 1, <<>>, Append(acc, word))
    ELSE split_on_space(text, j + 1, Append(word, text[j]), acc)

tokenize_on_space(text) == split_on_space(text, 1, <<>>, <<>>)

\* def tokenize(text): text.split()
tokenize(text) == split_from(text, 1, <<>>, <<>>)

\* ------------------------------------------------------------- the corpus
\* utt.tokens before the tokenization cell has set it
Unset == <<None>>

Utterance(t) == [text |-> t, tokens |-> Unset]

\* a text of max_length + 1 words
ElevenWords ==
    <<"a"," ","b"," ","c"," ","d"," ","e"," ","f"," ","g"," ","h"," ","i"," ","j"," ","k">>

PipelineTexts ==
    { None,
      <<"<","P","A","D",">"," "," ","H","i","!">>,
      <<"?">>,
      ElevenWords }

RECURSIVE Sum(_)
Sum(s) == IF s = <<>> THEN 0 ELSE Head(s) + Sum(Tail(s))

Shapes == {s \in SeqsUpTo(0..MaxUtts, MaxConvs) : Sum(s) <= MaxUtts}

Build(shape, texts) ==
    [c \in DOMAIN shape |->
        [u \in 1..shape[c] |-> Utterance(texts[Sum(SubSeq(shape, 1, c - 1)) + u])]]

\* preprocessed_data.json: fault is the step at which the file system failed
NoFile == [exists |-> FALSE, closed |-> TRUE, content |-> <<>>, fault |-> "none"]

Idle ==
    /\ corpus = <<>>
    /\ pc = "function"
    /\ ci = 1
    /\ ui = 1
    /\ pairs = <<>>
    /\ train_pairs = <<>>
    /\ val_pairs = <<>>
    /\ train_idx = <<>>
    /\ val_idx = <<>>
    /\ file = NoFile
    /\ stdout = <<>>
    /\ err = "none"

\* the state when the cleaning cell starts: the corpus as loaded
Init ==
    /\ \E shape \in Shapes :
         \E texts \in [1..Sum(shape) -> PipelineTexts] :
            corpus = Build(shape, texts)
    /\ pc = "clean"
    /\ ci = 1
    /\ ui = 1
    /\ pairs = <<>>
    /\ train_pairs = <<>>
    /\ val_pairs = <<>>
    /\ train_idx = <<>>
    /\ val_idx = <<>>
    /\ file = NoFile
    /\ stdout = <<>>
    /\ err = "none"
    /\ arg = <<>>
    /\ ret = <<>>

Raise(e) ==
    /\ err' = e
    /\ pc' = "error"

\* ------------------------------------------------------ 2. Data Cleaning
\* utt.text = clean_text(utt.text); None has no lower(): AttributeError
CleanStep ==
    /\ pc = "clean"
    /\ ci <= Len(corpus)
    /\ ui <= Len(corpus[ci])
    /\ IF corpus[ci][ui].text = None
         THEN /\ Raise("AttributeError")
              /\ UNCHANGED <<corpus, ci, ui>>
         ELSE /\ corpus' = [corpus EXCEPT ![ci][ui].text = clean_text(@)]
              /\ ui' = ui + 1
              /\ UNCHANGED <<pc, err, ci>>
    /\ UNCHANGED <<pairs, train_pairs, val_pairs, train_idx, val_idx, file, stdout, arg, ret>>

CleanNextConvo ==
    /\ pc = "clean"
    /\ ci <= Len(corpus)
    /\ ui > Len(corpus[ci])
    /\ ci' = ci + 1
    /\ ui' = 1
    /\ UNCHANGED <<corpus, pc, pairs, train_pairs, val_pairs, train_idx, val_idx,
                   file, stdout, err, arg, ret>>

CleanEnd ==
    /\ pc = "clean"
    /\ ci > Len(corpus)
    /\ pc' = "tokenize"
    /\ ci' = 1
    /\ ui' = 1
    /\ UNCHANGED <<corpus, pairs, train_pairs, val_pairs, train_idx, val_idx,
                   file, stdout, err, arg, ret>>

\* ------------------------------------------------------- 3. Tokenization
TokenizeStep ==
    /\ pc = "tokenize"
    /\ ci <= Len(corpus)
    /\ ui <= Len(corpus[ci])
    /\ corpus' = [corpus EXCEPT ![ci][ui].tokens = tokenize(corpus[ci][ui].text)]
    /\ ui' = ui + 1
    /\ UNCHANGED <<pc, ci, pairs, train_pairs, val_pairs, train_idx, val_idx,
                   file, stdout, err, arg, ret>>

TokenizeNextConvo ==
    /\ pc = "tokenize"
    /\ ci <= Len(corpus)
    /\ ui > Len(corpus[ci])
    /\ ci' = ci + 1
    /\ ui' = 1
    /\ UNCHANGED <<corpus, pc, pairs, train_pairs, val_pairs, train_idx, val_idx,
                   file, stdout, err, arg, ret>>

TokenizeEnd ==
    /\ pc = "tokenize"
    /\ ci > Len(corpus)
    /\ pc' = "pair"
    /\ ci' = 1
    /\ ui' = 1
    /\ UNCHANGED <<corpus, pairs, train_pairs, val_pairs, train_idx, val_idx,
                   file, stdout, err, arg, ret>>

\* --------------------------------------------------- 4. Conversation Pairing
\* range(len(utterances) - 1): the number of passes of the inner loop
inner_iterations_skip_last(utterances) ==
    IF Len(utterances) - 2 > 0 THEN Len(utterances) - 2 ELSE 0

inner_iterations(utterances) ==
    IF Len(utterances) - 1 > 0 THEN Len(utterances) - 1 ELSE 0

\* (utterances[i].text, utterances[i+1].text), i counted from 1
text_pair(utterances, i) == <<utterances[i].text, utterances[i + 1].text>>

list_prepend(l, x) == <<x>> \o l

\* pairs.append(x)
list_append(l, x) == Append(l, x)

PairAppend ==
    /\ pc = "pair"
    /\ ci <= Len(corpus)
    /\ ui <= inner_iterations(corpus[ci])
    /\ pairs' = list_append(pairs, text_pair(corpus[ci], ui))
    /\ ui' = ui + 1
    /\ UNCHANGED <<corpus, pc, ci, train_pairs, val_pairs, train_idx, val_idx,
                   file, stdout, err, arg, ret>>

PairNextConvo ==
    /\ pc = "pair"
    /\ ci <= Len(corpus)
    /\ ui > inner_iterations(corpus[ci])
    /\ ci' = ci + 1
    /\ ui' = 1
    /\ UNCHANGED <<corpus, pc, pairs, train_pairs, val_pairs, train_idx, val_idx,
                   file, stdout, err, arg, ret>>

\* print(pairs[0]) after the loops: IndexError on an empty list
PairEnd ==
    /\ pc = "pair"
    /\ ci > Len(corpus)
    /\ IF pairs = <<>>
         THEN /\ Raise("IndexError")
              /\ UNCHANGED <<stdout, ci, ui>>
         ELSE /\ stdout' = Append(stdout, "pairs[0]")
              /\ pc' = "pad"
              /\ ci' = 1
              /\ ui' = 1
              /\ UNCHANGED err
    /\ UNCHANGED <<corpus, pairs, train_pairs, val_pairs, train_idx, val_idx,
                   file, arg, ret>>

\* ------------------------------------------------ 5. Padding and Truncation
Min(a, b) == IF a < b THEN a ELSE b

Max(a, b) == IF a > b THEN a ELSE b

\* sequence[:n], Python's slice: a negative n counts from the end
py_slice_to(sequence, n) ==
    IF n >= 0 THEN SubSeq(sequence, 1, Min(n, Len(sequence)))
    ELSE SubSeq(sequence, 1, Max(0, Len(sequence) + n))

\* [x] * k: the empty list when k <= 0
py_repeat(x, k) == [j \in 1..k |-> x]

pad_sequence_no_truncate(sequence, ml) ==
    sequence \o py_repeat(PAD, ml - Len(sequence))

\* def pad_sequence(sequence, max_length)
pad_sequence(sequence, ml) ==
    py_slice_to(sequence, ml) \o py_repeat(PAD, ml - Len(sequence))

padded_pair_one_side(p) ==
    <<pad_sequence(tokenize(p[1]), max_length), tokenize(p[2])>>

padded_pair_split_on_space(p) ==
    <<pad_sequence(tokenize_on_space(p[1]), max_length),
      pad_sequence(tokenize_on_space(p[2]), max_length)>>

\* the body of the padding loop: both sides tokenized again and padded
padded_pair(p) ==
    <<pad_sequence(tokenize(p[1]), max_length), pad_sequence(tokenize(p[2]), max_length)>>

PadStep ==
    /\ pc = "pad"
    /\ ui <= Len(pairs)
    /\ pairs' = [pairs EXCEPT ![ui] = padded_pair(@)]
    /\ ui' = ui + 1
    /\ UNCHANGED <<corpus, pc, ci, train_pairs, val_pairs, train_idx, val_idx,
                   file, stdout, err, arg, ret>>

\* print(pairs[0]) after the loop
PadEnd ==
    /\ pc = "pad"
    /\ ui > Len(pairs)
    /\ IF pairs = <<>>
         THEN /\ Raise("IndexError")
              /\ UNCHANGED stdout
         ELSE /\ stdout' = Append(stdout, "pairs[0]")
              /\ pc' = "split"
              /\ UNCHANGED err
    /\ UNCHANGED <<corpus, ci, ui, pairs, train_pairs, val_pairs, train_idx, val_idx,
                   file, arg, ret>>

\* ------------------------------------------------------ 6. Train/Test Split
\* test_size=0.2 as the fraction 1/5
TestSizeNum == 1

TestSizeDen == 5

n_test_floor(n) == (n * TestSizeNum) \div TestSizeDen

\* train_test_split: n_test = ceil(test_size * n_samples)
n_test(n) == (n * TestSizeNum + TestSizeDen - 1) \div TestSizeDen

\* train_size=None: n_train is what is left
n_train(n) == n - n_test(n)

\* the orders a shuffle of n positions can produce
Perms(n) == {p \in [1..n -> 1..n] : Range(p) = 1..n}

test_indices(perm) == SubSeq(perm, 1, n_test(Len(perm)))

train_indices_overlap(perm) ==
    SubSeq(perm, Max(1, n_test(Len(perm))), n_test(Len(perm)) + n_train(Len(perm)))

\* ind_train = permutation[n_test:(n_test + n_train)]
train_indices(perm) ==
    SubSeq(perm, n_test(Len(perm)) + 1, n_test(Len(perm)) + n_train(Len(perm)))

Take(xs, idx) == [j \in DOMAIN idx |-> xs[idx[j]]]

\* train_test_split(xs, test_size=0.2): ValueError when the train set would be
\* empty, else the two selections of a random permutation of the positions
TrainTestSplit(xs, next_pc) ==
    IF n_train(Len(xs)) = 0
      THEN /\ Raise("ValueError")
           /\ UNCHANGED <<train_pairs, val_pairs, train_idx, val_idx, stdout>>
      ELSE /\ \E perm \in Perms(Len(xs)) :
                /\ train_idx' = train_indices(perm)
                /\ val_idx' = test_indices(perm)
                /\ train_pairs' = Take(xs, train_indices(perm))
                /\ val_pairs' = Take(xs, test_indices(perm))
           /\ stdout' = Append(stdout, "sizes")
           /\ pc' = next_pc
           /\ UNCHANGED err

Split ==
    /\ pc = "split"
    /\ TrainTestSplit(pairs, "save")
    /\ UNCHANGED <<corpus, ci, ui, pairs, file, arg, ret>>

\* -------------------------------------------------- 7. Save Preprocessed Data
\* The cell as stored opens with a stray "]" before `with`: it does not
\* compile, so none of its statements runs.
SaveCell ==
    /\ pc = "save"
    /\ Raise("SyntaxError")
    /\ UNCHANGED <<corpus, ci, ui, pairs, train_pairs, val_pairs, train_idx, val_idx,
                   file, stdout, arg, ret>>

\* json.dump, ensure_ascii: a quote or a backslash is escaped by a backslash
json_escape(c) ==
    IF c = "\"" THEN <<"\\", "\"">>
    ELSE IF c = "\\" THEN <<"\\", "\\">>
    ELSE <<c>>

json_str(tok) ==
    <<"\"">> \o Concat([j \in DOMAIN tok |-> json_escape(tok[j])]) \o <<"\"">>

RECURSIVE join(_)
join(items) ==
    IF items = <<>> THEN <<>>
    ELSE IF Len(items) = 1 THEN items[1]
    ELSE items[1] \o <<",", " ">> \o join(Tail(items))

\* a list or a tuple is written as an array, items separated by ", "
json_list(items) == <<"[">> \o join(items) \o <<"]">>

\* json.dump(pairs, f): an array of pairs, a pair an array of two arrays of strings
json_dumps(ps) ==
    json_list([k \in DOMAIN ps |->
        json_list([side \in DOMAIN ps[k] |->
            json_list([t \in DOMAIN ps[k][side] |-> json_str(ps[k][side][t])])])])

\* json.load, the reader of the file: arrays come back as lists, strings as
\* strings; a value is returned tagged with its kind
RECURSIVE skip_ws(_, _)
skip_ws(s, p) == IF p <= Len(s) /\ s[p] = " " THEN skip_ws(s, p + 1) ELSE p

RECURSIVE parse_string(_, _, _)
parse_string(s, p, acc) ==
    IF s[p] = "\"" THEN [val |-> [kind |-> "str", v |-> acc], pos |-> p + 1]
    ELSE IF s[p] = "\\" THEN parse_string(s, p + 2, Append(acc, s[p + 1]))
    ELSE parse_string(s, p + 1, Append(acc, s[p]))

RECURSIVE parse_value(_, _)
RECURSIVE parse_items(_, _, _)
parse_value(s, p) ==
    LET q == skip_ws(s, p)
    IN  IF s[q] = "[" THEN parse_items(s, skip_ws(s, q + 1), <<>>)
        ELSE parse_string(s, q + 1, <<>>)

parse_items(s, p, acc) ==
    IF s[p] = "]" THEN [val |-> [kind |-> "list", v |-> acc], pos |-> p + 1]
    ELSE LET r == parse_value(s, p)
             q == skip_ws(s, r.pos)
         IN  IF s[q] = ","
               THEN parse_items(s, skip_ws(s, q + 1), Append(acc, r.val))
               ELSE parse_items(s, q, Append(acc, r.val))

json_loads(s) == parse_value(s, 1).val

\* how an exception of open() or of a write leaves the cell: nothing catches it
io_error_swallowed ==
    /\ pc' = "save_print"
    /\ UNCHANGED err

io_error == Raise("OSError")

\* The cell as it ran for the recorded output (the stray "]" absent):
\* with open('preprocessed_data.json', 'w') as f
SaveOpen ==
    /\ pc = "save"
    /\ file' = [exists |-> TRUE, closed |-> FALSE, content |-> <<>>, fault |-> "none"]
    /\ pc' = "save_dump"
    /\ UNCHANGED <<corpus, ci, ui, pairs, train_pairs, val_pairs, train_idx, val_idx,
                   stdout, err, arg, ret>>

\* open() fails: the destination is not writable
SaveOpenFail ==
    /\ pc = "save"
    /\ file' = [file EXCEPT !.fault = "open"]
    /\ io_error
    /\ UNCHANGED <<corpus, ci, ui, pairs, train_pairs, val_pairs, train_idx, val_idx,
                   stdout, arg, ret>>

\* json.dump(pairs, f) and the end of the with block, which closes the file
SaveDump ==
    /\ pc = "save_dump"
    /\ file' = [file EXCEPT !.content = json_dumps(pairs), !.closed = TRUE]
    /\ pc' = "save_print"
    /\ UNCHANGED <<corpus, ci, ui, pairs, train_pairs, val_pairs, train_idx, val_idx,
                   stdout, err, arg, ret>>

\* a write fails part-way: the with block closes the file, holding some
\* proper prefix of the text, and the exception leaves the cell
SaveDumpFail ==
    /\ pc = "save_dump"
    /\ \E cut \in {0, Len(json_dumps(pairs)) \div 2, Len(json_dumps(pairs)) - 1} :
         file' = [file EXCEPT !.content = SubSeq(json_dumps(pairs), 1, cut),
                              !.closed = TRUE, !.fault = "write"]
    /\ io_error
    /\ UNCHANGED <<corpus, ci, ui, pairs, train_pairs, val_pairs, train_idx, val_idx,
                   stdout, arg, ret>>

\* print("Preprocessed data saved successfully!")
SavePrint ==
    /\ pc = "save_print"
    /\ stdout' = Append(stdout, SUCCESS)
    /\ pc' = "done"
    /\ UNCHANGED <<corpus, ci, ui, pairs, train_pairs, val_pairs, train_idx, val_idx,
                   file, err, arg, ret>>

NextAsRun ==
    \/ CleanStep
    \/ CleanNextConvo
    \/ CleanEnd
    \/ TokenizeStep
    \/ TokenizeNextConvo
    \/ TokenizeEnd
    \/ PairAppend
    \/ PairNextConvo
    \/ PairEnd
    \/ PadStep
    \/ PadEnd
    \/ Split
    \/ SaveOpen
    \/ SaveOpenFail
    \/ SaveDump
    \/ SaveDumpFail
    \/ SavePrint

\* the notebook with the save cell as it ran for its recorded output
SpecAsRun == Init /\ [][NextAsRun]_vars

\* ------------------------------------------------ function specifications
\* tokens as tokenize(clean_text(..)) yields them: words over [a-z0-9]
PadTokens == {<<"a">>, <<"b">>, <<"p", "a", "d">>}

InitPad ==
    /\ Idle
    /\ \E s \in SeqsUpTo(PadTokens, MaxSeqLen) :
         \E ml \in 1..MaxPadLen : arg = <<s, ml>>
    /\ ret = <<>>

CallPad ==
    /\ pc = "function"
    /\ ret' = pad_sequence(arg[1], arg[2])
    /\ pc' = "returned"
    /\ UNCHANGED <<corpus, ci, ui, pairs, train_pairs, val_pairs, train_idx, val_idx,
                   file, stdout, err, arg>>

NextPad == CallPad

\* pad_sequence applied to every short token sequence and max_length >= 1
SpecPad == InitPad /\ [][NextPad]_vars

CleanChars == {"a", "B", "7", " ", "!", "U+0130", "U+00C9", "\n"}

InitClean ==
    /\ Idle
    /\ arg \in SeqsUpTo(CleanChars, MaxTextLen)
    /\ ret = <<>>

CallClean ==
    /\ pc = "function"
    /\ ret' = clean_text(arg)
    /\ pc' = "returned"
    /\ UNCHANGED <<corpus, ci, ui, pairs, train_pairs, val_pairs, train_idx, val_idx,
                   file, stdout, err, arg>>

NextClean == CallClean

\* clean_text applied to every short string
SpecClean == InitClean /\ [][NextClean]_vars

SplitItems == {<<<<<<"a">>>>, <<PAD>>>>, <<<<<<"b">>>>, <<PAD>>>>}

InitSplit ==
    /\ Idle
    /\ arg \in SeqsUpTo(SplitItems, MaxSplitLen)
    /\ ret = <<>>

CallSplit ==
    /\ pc = "function"
    /\ TrainTestSplit(arg, "returned")
    /\ UNCHANGED <<corpus, ci, ui, pairs, file, arg, ret>>

NextSplit == CallSplit

\* train_test_split(pairs, test_size=0.2) applied to every short list
SpecSplit == InitSplit /\ [][NextSplit]_vars

\* raw texts put together from the sentinel's spelling, white space, letters
\* in both cases, a digit, punctuation and non-ASCII letters
RawPieces ==
    {PAD, <<" ">>, <<"U+00A0">>, <<"a">>, <<"B">>, <<"7">>, <<"!">>, <<"U+0130">>, <<"U+212A">>}

RawTexts == {Concat(ps) : ps \in SeqsUpTo(RawPieces, MaxTextLen)}

\* a corpus of one conversation: any raw text, answered by a long utterance
InitTokens ==
    /\ \E s \in RawTexts : corpus = <<<<Utterance(s), Utterance(ElevenWords)>>>>
    /\ pc = "clean"
    /\ ci = 1
    /\ ui = 1
    /\ pairs = <<>>
    /\ train_pairs = <<>>
    /\ val_pairs = <<>>
    /\ train_idx = <<>>
    /\ val_idx = <<>>
    /\ file = NoFile
    /\ stdout = <<>>
    /\ err = "none"
    /\ arg = <<>>
    /\ ret = <<>>

NextTokens ==
    \/ CleanStep
    \/ CleanNextConvo
    \/ CleanEnd
    \/ TokenizeStep
    \/ TokenizeNextConvo
    \/ TokenizeEnd
    \/ PairAppend
    \/ PairNextConvo
    \/ PairEnd
    \/ PadStep
    \/ PadEnd

\* the cleaning, tokenization, pairing and padding cells on every short raw text
SpecTokens == InitTokens /\ [][NextTokens]_vars

\* ------------------------------------------------------------- the claims
\* the adjacent pairs of one conversation, in utterance order
ConvPairs(convo) ==
    IF Len(convo) < 2 THEN <<>>
    ELSE [i \in 1..(Len(convo) - 1) |-> <<convo[i].text, convo[i + 1].text>>]

\* the pairs of the conversations before position c, concatenated
PairsBefore(c) == Concat([k \in 1..(c - 1) |-> ConvPairs(corpus[k])])

AllPairs == PairsBefore(Len(corpus) + 1)

\* C1: for every token sequence s and max_length >= 1, pad_sequence returns the
\* first min(len(s), max_length) tokens of s in order, then '<PAD>' up to
\* length max_length exactly: no '<PAD>' when len(s) >= max_length, and only
\* '<PAD>' for the empty sequence.
C1_PadSequence ==
    pc = "returned" =>
        LET s == arg[1]
            ml == arg[2]
            k == IF Len(s) < ml THEN Len(s) ELSE ml
        IN  /\ Len(ret) = ml
            /\ \A j \in 1..k : ret[j] = s[j]
            /\ \A j \in (k + 1)..ml : ret[j] = PAD
            /\ Cardinality({j \in DOMAIN ret : ret[j] = PAD}) = ml - k
            /\ (Len(s) >= ml => PAD \notin Range(ret))
            /\ (s = <<>> => Range(ret) = {PAD})

C1_Witness ==
    /\ pc = "returned"
    /\ Len(arg[1]) = 2
    /\ arg[2] = 3
    /\ ret = <<arg[1][1], arg[1][2], PAD>>

\* C2: once the pairing loop is past a conversation of n utterances, that
\* conversation has contributed exactly max(n-1, 0) pairs and its i-th pair is
\* (utterance[i].text, utterance[i+1].text); a conversation of 0 or 1
\* utterances contributes none and the loop raises nothing (the only error of
\* the cell is the print of pairs[0] after the loops, on a wholly empty list).
C2_PairsPerConversation ==
    /\ pc = "pair" =>
          /\ err = "none"
          /\ \A c \in 1..(ci - 1) :
                LET n == Len(corpus[c])
                    off == Len(PairsBefore(c))
                    cnt == Len(PairsBefore(c + 1)) - off
                IN  /\ cnt = (IF n - 1 > 0 THEN n - 1 ELSE 0)
                    /\ Len(pairs) >= off + cnt
                    /\ \A i \in 1..cnt :
                          pairs[off + i] = <<corpus[c][i].text, corpus[c][i + 1].text>>
          /\ Len(pairs) = Len(PairsBefore(ci)) + (ui - 1)
    /\ err = "IndexError" => (ci > Len(corpus) /\ pairs = <<>> /\ AllPairs = <<>>)

C2_Witness ==
    /\ pc = "pair"
    /\ ci = 3
    /\ Len(corpus[1]) = 3
    /\ Len(corpus[2]) = 0
    /\ pairs = <<<<corpus[1][1].text, corpus[1][2].text>>,
                 <<corpus[1][2].text, corpus[1][3].text>>>>
    /\ corpus[1][1].text # corpus[1][3].text

Padded ==
    \/ pc = "pad" /\ ui > Len(pairs)
    \/ pc \in {"split", "save", "save_dump", "save_print", "done"}
    \/ pc = "error" /\ err \in {"ValueError", "SyntaxError", "OSError"}

LowerAlnum == Range(LowerAZ) \cup Digits

\* C5: for every string s, the empty one included, clean_text(s) is lower(s)
\* with every character outside [a-z0-9] and whitespace deleted, the others in
\* their order; the result holds only [a-z0-9] and whitespace, no upper case.
C5_CleanText ==
    pc = "returned" =>
        /\ ret = SelectSeq(lower(arg), LAMBDA c : c \in LowerAlnum \cup Whitespace)
        /\ Range(ret) \subseteq LowerAlnum \cup Whitespace
        /\ Range(ret) \cap Range(UpperAZ) = {}
        /\ (arg = <<>> => ret = <<>>)

C5_Witness ==
    /\ pc = "returned"
    /\ arg = <<"B", "!", "U+0130">>
    /\ ret = <<"b", "i">>

CountIn(s, x) == Cardinality({j \in DOMAIN s : s[j] = x})

\* C6: for every split of a list of N pairs, train and validation select
\* disjoint sets of positions of the list, len(train) + len(val) = N, and the
\* two together hold exactly the original pairs as a multiset.
C6_SplitPartitions ==
    pc = "returned" =>
        /\ Range(train_idx) \cap Range(val_idx) = {}
        /\ Cardinality(Range(train_idx)) = Len(train_idx)
        /\ Cardinality(Range(val_idx)) = Len(val_idx)
        /\ Range(train_idx) \cup Range(val_idx) = DOMAIN arg
        /\ train_pairs = [j \in DOMAIN train_idx |-> arg[train_idx[j]]]
        /\ val_pairs = [j \in DOMAIN val_idx |-> arg[val_idx[j]]]
        /\ Len(train_pairs) + Len(val_pairs) = Len(arg)
        /\ \A x \in Range(arg) \cup Range(train_pairs) \cup Range(val_pairs) :
              CountIn(train_pairs, x) + CountIn(val_pairs, x) = CountIn(arg, x)

C6_Witness ==
    /\ pc = "returned"
    /\ Len(arg) = 4
    /\ arg[1] = arg[2]
    /\ arg[3] # arg[1]
    /\ val_idx = <<2>>

\* Python's round(num/den): to the nearest integer, a tie to the even one
py_round(num, den) ==
    LET q == num \div den
        r == num % den
    IN  IF 2 * r < den THEN q
        ELSE IF 2 * r > den THEN q + 1
        ELSE IF q % 2 = 0 THEN q ELSE q + 1

\* C7 as stated: the train list has round((1-f)*N) pairs and the validation
\* list round(f*N), f = 0.2.
C7_RoundSizes ==
    pc = "returned" =>
        /\ Len(train_pairs) = py_round((TestSizeDen - TestSizeNum) * Len(arg), TestSizeDen)
        /\ Len(val_pairs) = py_round(TestSizeNum * Len(arg), TestSizeDen)

\* C7 amended: for N >= 2 the validation list has ceil(f*N) pairs and the
\* train list the N - ceil(f*N) others; for N < 2 the call raises ValueError
\* and returns nothing.
C7_CeilSizes ==
    LET N == Len(arg)
        ceil == CHOOSE k \in 0..N : TestSizeDen * k >= TestSizeNum * N
                                    /\ TestSizeDen * (k - 1) < TestSizeNum * N
    IN  /\ pc = "returned" =>
              /\ N >= 2
              /\ Len(val_pairs) = ceil
              /\ Len(train_pairs) = N - ceil
        /\ pc = "error" => (N < 2 /\ err = "ValueError" /\ train_pairs = <<>> /\ val_pairs = <<>>)
        /\ (pc = "function" \/ N >= 2) => err = "none"

C7_Witness ==
    /\ pc = "returned"
    /\ Len(arg) = 2
    /\ Len(val_pairs) = 1
    /\ Len(train_pairs) = 1

RECURSIVE untag(_)
untag(doc) ==
    IF doc.kind = "str" THEN doc.v ELSE [j \in DOMAIN doc.v |-> untag(doc.v[j])]

\* the save cell has been run
SaveCellRan == pc = "done" \/ (pc = "error" /\ err \in {"SyntaxError", "OSError"})

\* C8: reading back the file written by the save step gives the pair list
\* again: as many pairs, in the same order, with the same token strings.
C8_RoundTrip ==
    SaveCellRan =>
        /\ file.exists
        /\ file.closed
        /\ untag(json_loads(file.content)) = pairs

HasNullText == \E c \in DOMAIN corpus : \E u \in DOMAIN corpus[c] : corpus[c][u].text = None

\* C10: a missing (null) utterance text ends the run with a distinct 'invalid
\* input' error raised before any normalization of that text; no pair is
\* extracted and no file written.
C10_InvalidInput ==
    (HasNullText /\ pc = "error") =>
        /\ err = "InvalidInput"
        /\ pairs = <<>>
        /\ ~file.exists

\* the stored tokens of each conversation's adjacent utterances, in pair order
ConvTokenPairs(convo) ==
    IF Len(convo) < 2 THEN <<>>
    ELSE [i \in 1..(Len(convo) - 1) |-> <<convo[i].tokens, convo[i + 1].tokens>>]

AllTokenPairs == Concat([k \in DOMAIN corpus |-> ConvTokenPairs(corpus[k])])

\* the tokenization cell has set utt.tokens of every utterance
Tokenized == pc \in {"pair", "pad", "split"}

\* C11: every token the tokenization cell stores for a cleaned text is a
\* non-empty string over [a-z0-9], so none is the sentinel '<PAD>' (raw text
\* spelling '<PAD>' yields the token 'pad'); and in every padded sequence of
\* the pair list the positions holding '<PAD>' are exactly the trailing ones,
\* from min(len(tokens), max_length) up to max_length - 1 counted from 0.
C11_SentinelOnlyPads ==
    /\ \A c \in DOMAIN corpus : \A u \in DOMAIN corpus[c] :
          LET toks == corpus[c][u].tokens
          IN  /\ (Tokenized \/ (pc = "tokenize" /\ (c < ci \/ (c = ci /\ u < ui))))
                    => toks # Unset
              /\ toks # Unset =>
                    \A t \in DOMAIN toks :
                       /\ toks[t] # <<>>
                       /\ Range(toks[t]) \subseteq LowerAlnum
                       /\ toks[t] # PAD
    /\ pc \in {"pad", "split"} =>
          \A k \in DOMAIN pairs :
             (pc = "split" \/ k < ui) =>
                \A side \in 1..2 :
                   LET n == Len(AllTokenPairs[k][side])
                   IN  /\ Len(pairs[k][side]) = max_length
                       /\ {j \in 1..max_length : pairs[k][side][j] = PAD}
                             = (Min(n, max_length) + 1)..max_length

C11_Witness ==
    /\ pc = "split"
    /\ corpus[1][1].tokens = <<<<"p", "a", "d">>, <<"k">>>>
    /\ pairs[1][1] = <<<<"p", "a", "d">>, <<"k">>>> \o py_repeat(PAD, max_length - 2)
    /\ PAD \notin Range(pairs[1][2])

\* C12: the cleaning step removes empty or incomplete dialogues: no utterance
\* with an empty cleaned text reaches the pairing cell in a conversation that
\* yields pairs, and no pair of the padded pair list has a side without a real
\* token (a side of '<PAD>' only).
C12_NoEmptySide ==
    /\ pc = "pair" =>
          \A c \in DOMAIN corpus :
             Len(corpus[c]) >= 2 =>
                \A u \in DOMAIN corpus[c] : tokenize(corpus[c][u].text) # <<>>
    /\ Padded =>
          \A k \in DOMAIN pairs : \A side \in 1..2 : Range(pairs[k][side]) # {PAD}

\* the pair the padding loop would store if it padded the tokens kept on the
\* two paired utterances
padded_stored(tp) == <<pad_sequence(tp[1], max_length), pad_sequence(tp[2], max_length)>>

\* C13: the padding loop tokenizes each pair's cleaned texts again, and the
\* result is the one a single tokenization gives: every padded pair equals the
\* padding of the tokens the tokenization cell stored on the pair's two
\* utterances, during the padding loop and for the whole list after it.
C13_RetokenizeSameAsStored ==
    /\ pc = "pad" =>
          /\ Len(pairs) = Len(AllTokenPairs)
          /\ \A k \in DOMAIN pairs : k < ui => pairs[k] = padded_stored(AllTokenPairs[k])
    /\ Padded =>
          pairs = [k \in DOMAIN AllTokenPairs |-> padded_stored(AllTokenPairs[k])]

C13_Witness ==
    /\ pc = "split"
    /\ Len(corpus) = 1
    /\ Len(pairs) = 2
    /\ corpus[1][1].tokens = <<<<"p", "a", "d">>, <<"h", "i">>>>
    /\ Len(corpus[1][2].tokens) = max_length + 1
    /\ corpus[1][3].tokens = <<>>
    /\ pairs[1] = <<corpus[1][1].tokens \o py_repeat(PAD, max_length - 2),
                    SubSeq(corpus[1][2].tokens, 1, max_length)>>
    /\ pairs[2] = <<SubSeq(corpus[1][2].tokens, 1, max_length), py_repeat(PAD, max_length)>>

Next ==
    \/ CleanStep
    \/ CleanNextConvo
    \/ CleanEnd
    \/ TokenizeStep
    \/ TokenizeNextConvo
    \/ TokenizeEnd
    \/ PairAppend
    \/ PairNextConvo
    \/ PairEnd
    \/ PadStep
    \/ PadEnd
    \/ Split
    \/ SaveCell

Spec == Init /\ [][Next]_vars

====
